---------------------------- MODULE Spec2Model ----------------------------
(***************************************************************************)
(* Backtracking Sudoku engine of sudoku_generator.py and sudoku_solver.py: *)
(* the placement predicate, the row-major scan, the three recursive        *)
(* searches (solve, fill, bounded count), the removal loop of generate()   *)
(* and the difficulty estimate.                                            *)
(*                                                                         *)
(* The source writes the board as the literals 9 (side) and 3 (box side).  *)
(* Every operator below takes the box side b as its first argument and     *)
(* uses b*b where the source writes 9 and b where it writes 3; with b = 3  *)
(* an operator is the source line for line.  Exhaustive exploration is     *)
(* done on the b = 2 board (4x4, 288 solved grids); runs on the b = 3      *)
(* board are included where a single run is small enough to enumerate.     *)
(*                                                                         *)
(* A grid is a function row -> (col -> value) over 0..b*b-1, as the        *)
(* source's list of lists indexed from 0; 0 is the empty cell.             *)
(***************************************************************************)
EXTENDS Integers, Sequences, FiniteSets, TLC

VARIABLES
    box,        \* box side of the board of this run (3 in the source)
    mode,       \* which entry point runs: "solve", "count", "fill", "generate",
                \* "estimate", "is_valid", "find_empty"
    pc,         \* position in the running function: "call", "loop", "ret", ...
    grid,       \* the grid the search mutates in place
    stack,      \* activation records of the recursion, innermost last
    retval,     \* value carried by the return in progress
    result,     \* value returned by the outermost call
    limit,      \* count_solutions' limit argument
    given,      \* the grid as it was passed to the outermost call; in
                \* generate(), the full solution `full`
    puzzle,     \* generate(): one working grid per run
    cells,      \* generate(): the part of the shuffled list the for loop has taken
    removed_count, \* generate(): removals kept, per run
    max_removals   \* generate(): int(81 * mask_rate), per run

vars == <<box, mode, pc, grid, stack, retval, result, limit, given,
          puzzle, cells, removed_count, max_removals>>

genVars    == <<puzzle, cells, removed_count, max_removals>>

----------------------------------------------------------------------------
(* Bounds of the exploration.                                              *)

\* solver and counter inputs: grids with at most this many clues
MaxClues == 1
\* solver and counter inputs: solved grids with at most this many cells cleared
MaxHoles == 1
\* count_solutions is called with limit in 1..MaxLimit
MaxLimit == 3
\* generate(): the first MaxFree coordinates of the shuffled list are
\* arbitrary, the rest of the list is in row-major order
MaxFree == 1

----------------------------------------------------------------------------
(* Board geometry.                                                         *)

Size(b) == b * b
Index(b) == 0 .. (Size(b) - 1)
Digits(b) == 1 .. Size(b)
Coords(b) == Index(b) \X Index(b)

\* row-major position of a cell, and the value of grid g at position i
Pos(b, rc) == rc[1] * Size(b) + rc[2]
At(b, g, i) == g[i \div Size(b)][i % Size(b)]

\* the value find_empty returns when no cell is empty
None == <<>>

EmptyGrid(b) == [r \in Index(b) |-> [c \in Index(b) |-> 0]]

\* the set S itself, as an enumerated set
Listed(S) == {x : x \in S}

----------------------------------------------------------------------------
(* sudoku_generator.py: pure helpers.                                      *)

\* a wrong is_valid: forgets the box test
is_valid_nobox(b, g, row, col, num) ==
    /\ ~ \E c \in Index(b) : g[row][c] = num
    /\ ~ \E r \in Index(b) : g[r][col] = num

is_valid(b, g, row, col, num) ==
    IF \E c \in Index(b) : g[row][c] = num THEN FALSE
    ELSE IF \E r \in Index(b) : g[r][col] = num THEN FALSE
    ELSE LET start_row == (row \div b) * b
             start_col == (col \div b) * b
         IN  ~ \E r \in start_row .. (start_row + b - 1),
                  c \in start_col .. (start_col + b - 1) : g[r][c] = num

RECURSIVE scan_empty_colmajor(_, _, _)
\* a wrong scan: column by column
scan_empty_colmajor(b, g, i) ==
    IF i >= Size(b) * Size(b) THEN None
    ELSE IF g[i % Size(b)][i \div Size(b)] = 0
         THEN <<i % Size(b), i \div Size(b)>>
         ELSE scan_empty_colmajor(b, g, i + 1)

RECURSIVE scan_empty(_, _, _)
\* the two nested for loops of find_empty, flattened: i = r * 9 + c
scan_empty(b, g, i) ==
    IF i >= Size(b) * Size(b) THEN None
    ELSE IF g[i \div Size(b)][i % Size(b)] = 0
         THEN <<i \div Size(b), i % Size(b)>>
         ELSE scan_empty(b, g, i + 1)

find_empty(b, g) == scan_empty(b, g, 0)

\* rows, columns and boxes hold no value twice, zeros ignored
check_partial(b, g) ==
    /\ \A r \in Index(b) : \A c1, c2 \in Index(b) :
          (c1 < c2 /\ g[r][c1] # 0) => g[r][c1] # g[r][c2]
    /\ \A c \in Index(b) : \A r1, r2 \in Index(b) :
          (r1 < r2 /\ g[r1][c] # 0) => g[r1][c] # g[r2][c]
    /\ \A br, bc \in 0 .. (b - 1) :
          \A p, q \in (0 .. (b - 1)) \X (0 .. (b - 1)) :
             LET v == g[br * b + p[1]][bc * b + p[2]]
                 w == g[br * b + q[1]][bc * b + q[2]]
             IN  (p # q /\ v # 0) => v # w

count_clues(b, g) ==
    Cardinality({rc \in Coords(b) : g[rc[1]][rc[2]] # 0})

----------------------------------------------------------------------------
(* sudoku_solver.py: pure helpers.                                         *)

\* a wrong is_valid: forgets the box test
solver_is_valid_nobox(b, g, row, col, val) ==
    /\ ~ \E c \in Index(b) : g[row][c] = val
    /\ ~ \E r \in Index(b) : g[r][col] = val

solver_is_valid(b, g, row, col, val) ==
    IF \E c \in Index(b) : g[row][c] = val THEN FALSE
    ELSE IF \E r \in Index(b) : g[r][col] = val THEN FALSE
    ELSE LET br == (row \div b) * b
             bc == (col \div b) * b
         IN  ~ \E r \in br .. (br + b - 1),
                  c \in bc .. (bc + b - 1) : g[r][c] = val

RECURSIVE scan_empty_cell(_, _, _)
scan_empty_cell(b, g, i) ==
    IF i >= Size(b) * Size(b) THEN None
    ELSE IF g[i \div Size(b)][i % Size(b)] = 0
         THEN <<i \div Size(b), i % Size(b)>>
         ELSE scan_empty_cell(b, g, i + 1)

find_empty_cell(b, g) == scan_empty_cell(b, g, 0)

----------------------------------------------------------------------------
(* What a Sudoku solution is, stated independently of the search code.     *)

Perms(b) == {p \in Listed([Index(b) -> Digits(b)]) :
                \A i, j \in Index(b) : i # j => p[i] # p[j]}

BoxCells(b, br, bc) ==
    {<<br * b + p, bc * b + q>> : p \in 0 .. (b - 1), q \in 0 .. (b - 1)}

\* every row, column and box is a permutation of the digits
IsSolved(b, g) ==
    /\ \A r \in Index(b) : {g[r][c] : c \in Index(b)} = Digits(b)
    /\ \A c \in Index(b) : {g[r][c] : r \in Index(b)} = Digits(b)
    /\ \A br, bc \in 0 .. (b - 1) :
          {g[rc[1]][rc[2]] : rc \in BoxCells(b, br, bc)} = Digits(b)

\* two rows of the 4x4 board that already agree with the column and box rules
Bands2 == {t \in Listed([0 .. 1 -> Perms(2)]) :
              /\ \A c \in Index(2) : t[0][c] # t[1][c]
              /\ {t[0][0], t[0][1], t[1][0], t[1][1]} = Digits(2)}

\* the 288 solved grids of the 4x4 board: two bands whose columns agree
Solved2 == {g \in {[r \in Index(2) |-> IF r < 2 THEN t[r] ELSE u[r - 2]] :
                      t \in Bands2, u \in Bands2} :
               \A c \in Index(2) : g[0][c] # g[2][c] /\ g[0][c] # g[3][c]
                                     /\ g[1][c] # g[2][c] /\ g[1][c] # g[3][c]}

Extends(s, g, b) ==
    \A rc \in Coords(b) : g[rc[1]][rc[2]] # 0 => s[rc[1]][rc[2]] = g[rc[1]][rc[2]]

\* the valid completions of a 4x4 grid
Completions2(g) == {s \in Solved2 : Extends(s, g, 2)}

Holes(b, g) == {rc \in Coords(b) : g[rc[1]][rc[2]] = 0}

----------------------------------------------------------------------------
(* Input families.                                                         *)

RECURSIVE Sparse(_, _)
\* every grid with at most k clues, conflicting ones included
Sparse(b, k) ==
    IF k = 0 THEN {EmptyGrid(b)}
    ELSE LET S == Sparse(b, k - 1)
         IN  S \cup {[g EXCEPT ![rc[1]][rc[2]] = v] :
                        g \in S, rc \in Coords(b), v \in Digits(b)}

RECURSIVE Dug(_, _)
\* solved grids of S with at most h cells cleared
Dug(S, h) ==
    IF h = 0 THEN S
    ELSE LET D == Dug(S, h - 1)
         IN  D \cup {[g EXCEPT ![rc[1]][rc[2]] = 0] : g \in D, rc \in Coords(2)}


\* solved 4x4 grids whose row 0 reads 1 2 3 4
Canon2 == {g \in Solved2 : \A c \in Index(2) : g[0][c] = c + 1}

\* the grids of S with one non-empty cell overwritten by another digit
Overwritten(S) ==
    {[t[1] EXCEPT ![t[2][1]][t[2][2]] = t[3]] :
        t \in {u \in Listed(S) \X Coords(2) \X Digits(2) :
                  u[1][u[2][1]][u[2][2]] \notin {0, u[3]}}}

\* a solved 9x9 grid
Pattern9 == [r \in Index(3) |-> [c \in Index(3) |->
                (((r % 3) * 3 + (r \div 3) + c) % 9) + 1]]

RECURSIVE Dug9(_, _)
Dug9(S, h) ==
    IF h = 0 THEN S
    ELSE LET D == Dug9(S, h - 1)
         IN  D \cup {[g EXCEPT ![rc[1]][rc[2]] = 0] : g \in D, rc \in Coords(3)}

\* 4x4 inputs: sparse grids (conflicting ones included), solved grids with
\* cells cleared, solved grids with one digit overwritten (full, conflicting),
\* and cleared grids with one digit overwritten (mostly conflicting, some
\* conflict-free without a completion)
\* two solved grids, one of each kind the 4x4 board has up to its symmetries
Few2 == {g \in Canon2 : g[1][0] = 3 /\ g[1][2] = 1 /\ g[2][0] = 2}

Sparse2 == Listed(Sparse(2, MaxClues))
Dug2 == Listed(Dug(Solved2, MaxHoles))
Wrong2 == Listed(Overwritten(Dug(Canon2, MaxHoles)))
Tampered2 == {g \in Overwritten(Dug(Few2, MaxHoles + 1)) : check_partial(2, g)}

Inputs9 == Dug9({Pattern9}, MaxHoles)

\* solved grids with the two rows of one band cleared (2 or 4 completions)
BandCleared2 ==
    {[r \in Index(2) |-> IF r \div 2 = k THEN [c \in Index(2) |-> 0] ELSE s[r]] :
        s \in Solved2, k \in 0 .. 1}

Inputs2(g) ==
    \/ g \in Sparse2 \/ g \in Dug2 \/ g \in BandCleared2
    \/ g \in Wrong2 \/ g \in Tampered2

\* inputs of count_solutions: the conflict-free ones of the above
CountInputs2(g) ==
    \/ g \in Sparse2 \/ g \in Dug2 \/ g \in BandCleared2 \/ g \in Tampered2

CountInputs9 == {EmptyGrid(3)} \cup Inputs9


----------------------------------------------------------------------------
(* The recursion as a machine.  A frame is one activation of the search    *)
(* function past its `row, col = empty` line: the cell it works on, the    *)
(* digit its for loop is at (0 before the first iteration), for fill mode  *)
(* the digits of the shuffled list already consumed, and for count mode    *)
(* its local count.  pc = "call" is the entry of a call, "loop" the head   *)
(* of the top frame's for loop, "ret" a return whose value is in retval.   *)

Frame(row, col) == [row |-> row, col |-> col, num |-> 0, tried |-> {}, count |-> 0]

Top == stack[Len(stack)]
Pop == SubSeq(stack, 1, Len(stack) - 1)
SetTop(f) == [stack EXCEPT ![Len(stack)] = f]

SetMin(S) == CHOOSE v \in S : \A w \in S : v <= w
SetMax(S) == CHOOSE v \in S : \A w \in S : v >= w

\* a wrong loop: places the next digit without asking is_valid
solve_next_unchecked(b, g, f) ==
    IF f.num < Size(b) THEN f.num + 1 ELSE 0

\* a wrong loop: runs over the digits from 9 down to 1
solve_next_descending(b, g, f) ==
    LET S == {v \in 1 .. (IF f.num = 0 THEN Size(b) ELSE f.num - 1) :
                 solver_is_valid(b, g, f.row, f.col, v)}
    IN  IF S = {} THEN 0 ELSE SetMax(S)

\* `for val in range(1, 10): if is_valid(...)`: the digit the loop of frame f
\* places next, the first one after f.num for which is_valid holds; 0 when
\* the loop runs out
solve_next(b, g, f) ==
    LET S == {v \in (f.num + 1) .. Size(b) :
                 solver_is_valid(b, g, f.row, f.col, v)}
    IN  IF S = {} THEN 0 ELSE SetMin(S)

\* solve_sudoku, lines 54-58: find the next empty cell or report solved
solve_call ==
    /\ mode = "solve" /\ pc = "call"
    /\ LET empty == find_empty_cell(box, grid)
       IN  IF empty = None
           THEN /\ retval' = TRUE
                /\ pc' = "ret"
                /\ stack' = stack
           ELSE /\ stack' = Append(stack, Frame(empty[1], empty[2]))
                /\ pc' = "loop"
                /\ retval' = retval
    /\ UNCHANGED <<box, mode, grid, result, limit, given>>
    /\ UNCHANGED genVars

\* solve_sudoku, lines 60-62 and 67: advance the for loop to the next valid
\* digit and place it, or fall out of the loop and return False
solve_loop ==
    /\ mode = "solve" /\ pc = "loop"
    /\ LET f == Top
           next == solve_next(box, grid, f)
       IN  IF next # 0
           THEN /\ grid' = [grid EXCEPT ![f.row][f.col] = next]
                /\ stack' = SetTop([f EXCEPT !.num = next])
                /\ pc' = "call"
                /\ retval' = retval
           ELSE /\ retval' = FALSE
                /\ stack' = Pop
                /\ pc' = "ret"
                /\ grid' = grid
    /\ UNCHANGED <<box, mode, result, limit, given>>
    /\ UNCHANGED genVars

\* a wrong return path: the cell is not cleared after a failed recursive call
solve_ret_nobacktrack ==
    /\ mode = "solve" /\ pc = "ret"
    /\ IF stack = <<>>
       THEN /\ result' = retval
            /\ pc' = "done"
            /\ UNCHANGED <<grid, stack, retval>>
       ELSE IF retval
            THEN /\ stack' = Pop
                 /\ UNCHANGED <<grid, retval, pc, result>>
            ELSE /\ pc' = "loop"
                 /\ UNCHANGED <<grid, stack, retval, result>>
    /\ UNCHANGED <<box, mode, limit, given>>
    /\ UNCHANGED genVars

\* solve_sudoku, lines 63-65: the recursive call has returned
solve_ret ==
    /\ mode = "solve" /\ pc = "ret"
    /\ IF stack = <<>>
       THEN /\ result' = retval
            /\ pc' = "done"
            /\ UNCHANGED <<grid, stack, retval>>
       ELSE IF retval
            THEN /\ stack' = Pop
                 /\ UNCHANGED <<grid, retval, pc, result>>
            ELSE /\ grid' = [grid EXCEPT ![Top.row][Top.col] = 0]
                 /\ pc' = "loop"
                 /\ UNCHANGED <<stack, retval, result>>
    /\ UNCHANGED <<box, mode, limit, given>>
    /\ UNCHANGED genVars

----------------------------------------------------------------------------
(* count_solutions as a machine.                                           *)

\* a wrong early exit: stops only when the count is above the limit
limit_reached_late(count, lim) == count > lim

\* line 117: `if count >= limit`
limit_reached(count, lim) == count >= lim

\* a wrong loop: places the next digit without asking is_valid
count_next_unchecked(b, g, f) ==
    IF f.num < Size(b) THEN f.num + 1 ELSE 0

\* `for num in range(1, 10): if is_valid(...)`: the digit the loop of frame f
\* places next; 0 when the loop runs out
count_next(b, g, f) ==
    LET S == {v \in (f.num + 1) .. Size(b) : is_valid(b, g, f.row, f.col, v)}
    IN  IF S = {} THEN 0 ELSE SetMin(S)

\* count_solutions, lines 102-107: a full grid counts as one solution
count_call ==
    /\ mode = "count" /\ pc = "call"
    /\ LET empty == find_empty(box, grid)
       IN  IF empty = None
           THEN /\ retval' = 1
                /\ pc' = "ret"
                /\ stack' = stack
           ELSE /\ stack' = Append(stack, Frame(empty[1], empty[2]))
                /\ pc' = "loop"
                /\ retval' = retval
    /\ UNCHANGED <<box, mode, grid, result, limit, given>>
    /\ UNCHANGED genVars

\* count_solutions, lines 110-112 and 120: place the next valid digit, or
\* fall out of the loop and return the count
count_loop ==
    /\ mode = "count" /\ pc = "loop"
    /\ LET f == Top
           next == count_next(box, grid, f)
       IN  IF next # 0
           THEN /\ grid' = [grid EXCEPT ![f.row][f.col] = next]
                /\ stack' = SetTop([f EXCEPT !.num = next])
                /\ pc' = "call"
                /\ retval' = retval
           ELSE /\ retval' = f.count
                /\ stack' = Pop
                /\ pc' = "ret"
                /\ grid' = grid
    /\ UNCHANGED <<box, mode, result, limit, given>>
    /\ UNCHANGED genVars

\* a wrong return path: the limit is tested before the cell is cleared
count_ret_exit_first ==
    /\ mode = "count" /\ pc = "ret"
    /\ IF stack = <<>>
       THEN /\ result' = retval
            /\ pc' = "done"
            /\ UNCHANGED <<grid, stack, retval>>
       ELSE LET f == Top
                count == f.count + retval
            IN  /\ result' = result
                /\ IF limit_reached(count, limit)
                   THEN /\ retval' = count
                        /\ stack' = Pop
                        /\ pc' = "ret"
                        /\ grid' = grid
                   ELSE /\ grid' = [grid EXCEPT ![f.row][f.col] = 0]
                        /\ stack' = SetTop([f EXCEPT !.count = count])
                        /\ pc' = "loop"
                        /\ retval' = retval
    /\ UNCHANGED <<box, mode, limit, given>>
    /\ UNCHANGED genVars

\* count_solutions, lines 113-118: add what the recursive call returned,
\* clear the cell, and return at once when the count has reached the limit
count_ret ==
    /\ mode = "count" /\ pc = "ret"
    /\ IF stack = <<>>
       THEN /\ result' = retval
            /\ pc' = "done"
            /\ UNCHANGED <<grid, stack, retval>>
       ELSE LET f == Top
                count == f.count + retval
            IN  /\ grid' = [grid EXCEPT ![f.row][f.col] = 0]
                /\ result' = result
                /\ IF limit_reached(count, limit)
                   THEN /\ retval' = count
                        /\ stack' = Pop
                        /\ pc' = "ret"
                   ELSE /\ stack' = SetTop([f EXCEPT !.count = count])
                        /\ pc' = "loop"
                        /\ retval' = retval
    /\ UNCHANGED <<box, mode, limit, given>>
    /\ UNCHANGED genVars

----------------------------------------------------------------------------
(* fill_grid_backtracking and generate_full_grid as a machine.             *)
(* random.shuffle(nums) is drawn lazily: each iteration of the for loop    *)
(* takes any digit of the list not taken before.  Digits for which         *)
(* is_valid fails leave no trace (the grid is the same at every iteration  *)
(* of one frame's loop), so an iteration is modelled from the next digit   *)
(* that passes is_valid; `tried` holds the digits placed so far.           *)

\* the digits the shuffled loop of frame f may place next
fill_candidates(b, g, f) ==
    {v \in Digits(b) \ f.tried : is_valid(b, g, f.row, f.col, v)}

\* fill_grid_backtracking, lines 68-74
fill_call ==
    /\ mode = "fill" /\ pc = "call"
    /\ LET empty == find_empty(box, grid)
       IN  IF empty = None
           THEN /\ retval' = TRUE
                /\ pc' = "ret"
                /\ stack' = stack
           ELSE /\ stack' = Append(stack, Frame(empty[1], empty[2]))
                /\ pc' = "loop"
                /\ retval' = retval
    /\ UNCHANGED <<box, mode, grid, result, limit, given>>
    /\ UNCHANGED genVars

\* fill_grid_backtracking, lines 76-78 and 83
fill_loop ==
    /\ mode = "fill" /\ pc = "loop"
    /\ LET f == Top
           cand == fill_candidates(box, grid, f)
       IN  \/ \E num \in cand :
                /\ grid' = [grid EXCEPT ![f.row][f.col] = num]
                /\ stack' = SetTop([f EXCEPT !.num = num, !.tried = @ \cup {num}])
                /\ pc' = "call"
                /\ retval' = retval
           \/ /\ cand = {}
              /\ retval' = FALSE
              /\ stack' = Pop
              /\ pc' = "ret"
              /\ grid' = grid
    /\ UNCHANGED <<box, mode, result, limit, given>>
    /\ UNCHANGED genVars

\* fill_grid_backtracking, lines 79-81: the recursive call has returned;
\* the outermost call returns into generate_full_grid
fill_ret ==
    /\ mode = "fill" /\ pc = "ret"
    /\ IF stack = <<>>
       THEN /\ pc' = "returned"
            /\ UNCHANGED <<grid, stack, retval>>
       ELSE IF retval
            THEN /\ stack' = Pop
                 /\ UNCHANGED <<grid, retval, pc>>
            ELSE /\ grid' = [grid EXCEPT ![Top.row][Top.col] = 0]
                 /\ pc' = "loop"
                 /\ UNCHANGED <<stack, retval>>
    /\ UNCHANGED <<box, mode, result, limit, given>>
    /\ UNCHANGED genVars

\* generate_full_grid, lines 89-93: `if not ok: raise RuntimeError`
generate_full_grid ==
    /\ mode = "fill" /\ pc = "returned"
    /\ IF ~ retval
       THEN /\ pc' = "RuntimeError"
            /\ result' = result
       ELSE /\ pc' = "done"
            /\ result' = grid
    /\ UNCHANGED <<box, mode, grid, stack, retval, limit, given>>
    /\ UNCHANGED genVars

----------------------------------------------------------------------------
(* count_solutions as a function, for its callers: what it returns and the *)
(* grid it leaves behind.                                                  *)

RECURSIVE count_solutions(_, _, _), count_solutions_loop(_, _, _, _, _, _, _)

\* lines 102-107
count_solutions(b, g, lim) ==
    LET empty == find_empty(b, g)
    IN  IF empty = None
        THEN [count |-> 1, grid |-> g]
        ELSE count_solutions_loop(b, g, lim, empty[1], empty[2], 1, 0)

\* lines 110-120: the for loop from digit num on, with `count` so far
count_solutions_loop(b, g, lim, row, col, num, count) ==
    IF num > Size(b) THEN [count |-> count, grid |-> g]
    ELSE IF is_valid(b, g, row, col, num)
         THEN LET sub == count_solutions(b, [g EXCEPT ![row][col] = num], lim)
                  c2 == count + sub.count
                  g2 == [sub.grid EXCEPT ![row][col] = 0]
              IN  IF limit_reached(c2, lim)
                  THEN [count |-> c2, grid |-> g2]
                  ELSE count_solutions_loop(b, g2, lim, row, col, num + 1, c2)
         ELSE count_solutions_loop(b, g, lim, row, col, num + 1, count)

----------------------------------------------------------------------------
(* generate().  One or two runs of the removal loop advance together over  *)
(* the same full grid and the same shuffled coordinate list; run i has its *)
(* own puzzle[i], removed_count[i] and max_removals[i].  random.shuffle is *)
(* drawn lazily: `cells` holds the coordinates the for loop has taken.     *)

\* mask_rate values, in percent
Rates == {-10, 0, 20, 50, 70, 120}

\* int(x / 100): Python's int() truncates towards zero
Trunc100(x) == IF x >= 0 THEN x \div 100 ELSE -((-x) \div 100)

\* a wrong line 139: takes mask_rate for the share of cells to keep
MaxRemovals_kept(b, rate) == Trunc100(Size(b) * Size(b) * (100 - rate))

\* line 139: max_removals = int(81 * mask_rate)
MaxRemovals(b, rate) == Trunc100(Size(b) * Size(b) * rate)

\* a wrong acceptance test: refuses every removal
removal_kept_never(solutions) == solutions < 0

\* a wrong acceptance test: keeps the removal whenever a solution is left
removal_kept_nonzero(solutions) == solutions >= 1

\* line 158: the removal is kept when `solutions != 1` is false
removal_kept(solutions) == ~ (solutions # 1)

\* a wrong loop body: keeps the removal without counting it
generate_body_uncounted(b, p, removed, maxr, rc) ==
    IF removed >= maxr
    THEN [puzzle |-> p, removed_count |-> removed]
    ELSE LET cleared == [p EXCEPT ![rc[1]][rc[2]] = 0]
         IN  IF ~ removal_kept(count_solutions(b, cleared, 2).count)
             THEN [puzzle |-> p, removed_count |-> removed]
             ELSE [puzzle |-> cleared, removed_count |-> removed]

\* lines 142-163, one iteration of the for loop at coordinate rc; a run that
\* has taken its break stays as it is
generate_body(b, p, removed, maxr, rc) ==
    IF removed >= maxr
    THEN [puzzle |-> p, removed_count |-> removed]
    ELSE LET original_val == p[rc[1]][rc[2]]
             cleared == [p EXCEPT ![rc[1]][rc[2]] = 0]
             grid_copy == cleared
             solutions == count_solutions(b, grid_copy, 2).count
         IN  IF ~ removal_kept(solutions)
             THEN [puzzle |-> [cleared EXCEPT ![rc[1]][rc[2]] = original_val],
                   removed_count |-> removed]
             ELSE [puzzle |-> cleared, removed_count |-> removed + 1]

Runs == DOMAIN puzzle

\* the coordinates the for loop has taken so far
Attempted == {cells[k] : k \in 1 .. Len(cells)}

\* a wrong list: coordinates drawn with replacement
NextCoords_any == Coords(box)

\* lines 135-136: the list holds every coordinate once, so the next one is
\* one not taken before
NextCoords ==
    LET rest == Coords(box) \ Attempted
    IN  IF Len(cells) < MaxFree THEN rest
        ELSE {rc \in rest : \A other \in rest : Pos(box, rc) <= Pos(box, other)}

\* the for loop takes the next coordinate and some run has not yet broken out
generate_iter ==
    /\ mode = "generate" /\ pc = "loop"
    /\ Len(cells) < Size(box) * Size(box)
    /\ \E i \in Runs : removed_count[i] < max_removals[i]
    /\ \E rc \in NextCoords :
          LET body(i) ==
                  generate_body(box, puzzle[i], removed_count[i], max_removals[i], rc)
              after == IF Len(puzzle) = 1 THEN <<body(1)>> ELSE <<body(1), body(2)>>
          IN  /\ cells' = Append(cells, rc)
              /\ puzzle' = [i \in Runs |-> after[i].puzzle]
              /\ removed_count' = [i \in Runs |-> after[i].removed_count]
    /\ UNCHANGED <<box, mode, pc, grid, stack, retval, result, limit, given, max_removals>>

\* the list is exhausted or every run has taken its break: `return puzzle`
generate_return ==
    /\ mode = "generate" /\ pc = "loop"
    /\ \/ Len(cells) = Size(box) * Size(box)
       \/ \A i \in Runs : removed_count[i] >= max_removals[i]
    /\ pc' = "done"
    /\ result' = puzzle
    /\ UNCHANGED <<box, mode, grid, stack, retval, limit, given>>
    /\ UNCHANGED genVars

\* the full grids generate() starts from: outputs of fill mode
GenFulls == Few2

NoGen ==
    /\ puzzle = <<>> /\ cells = <<>> /\ removed_count = <<>>
    /\ max_removals = <<>>

InitSolve ==
    /\ \E b \in {2, 3} :
          /\ box = b
          /\ IF b = 2 THEN Inputs2(grid) ELSE grid \in Inputs9
    /\ given = grid
    /\ mode = "solve" /\ pc = "call" /\ stack = <<>>
    /\ retval = FALSE /\ result = FALSE /\ limit = 0
    /\ NoGen

InitCount ==
    /\ \E b \in {2, 3} :
          /\ box = b
          /\ IF b = 2 THEN CountInputs2(grid) ELSE grid \in CountInputs9
    /\ given = grid
    /\ limit \in 1 .. MaxLimit
    /\ mode = "count" /\ pc = "call" /\ stack = <<>>
    /\ retval = 0 /\ result = 0
    /\ NoGen

NextCount == count_call \/ count_loop \/ count_ret

SpecCount == InitCount /\ [][NextCount]_vars

InitFill ==
    /\ box = 2
    /\ grid = EmptyGrid(2)
    /\ given = grid
    /\ mode = "fill" /\ pc = "call" /\ stack = <<>>
    /\ retval = FALSE /\ result = <<>> /\ limit = 0
    /\ NoGen

NextFill == fill_call \/ fill_loop \/ fill_ret \/ generate_full_grid

SpecFill == InitFill /\ [][NextFill]_vars

\* generate() after lines 129-140, one run
InitGen ==
    /\ box = 2
    /\ given \in GenFulls
    /\ puzzle = <<given>>
    /\ cells = <<>>
    /\ removed_count = <<0>>
    /\ \E rate \in Rates : max_removals = <<MaxRemovals(2, rate)>>
    /\ mode = "generate" /\ pc = "loop"
    /\ grid = <<>> /\ stack = <<>> /\ retval = 0 /\ result = <<>> /\ limit = 2

NextGen == generate_iter \/ generate_return

SpecGen == InitGen /\ [][NextGen]_vars

\* two runs of generate() on the same full grid and the same shuffled list,
\* the second with the larger mask_rate
InitMono ==
    /\ box = 2
    /\ given \in GenFulls
    /\ puzzle = <<given, given>>
    /\ cells = <<>>
    /\ removed_count = <<0, 0>>
    /\ \E lo, hi \in Rates :
          /\ lo < hi
          /\ max_removals = <<MaxRemovals(2, lo), MaxRemovals(2, hi)>>
    /\ mode = "generate" /\ pc = "loop"
    /\ grid = <<>> /\ stack = <<>> /\ retval = 0 /\ result = <<>> /\ limit = 2

SpecMono == InitMono /\ [][NextGen]_vars

NextSolve == solve_call \/ solve_loop \/ solve_ret

SpecSolve == InitSolve /\ [][NextSolve]_vars

----------------------------------------------------------------------------
(* Properties of solve mode.                                               *)

Done == pc = "done"

\* the input grid has a valid completion (on the 9x9 board every input is a
\* solved grid with cells cleared, so the solved grid itself is one)
Completable ==
    IF box = 2 THEN Completions2(given) # {} ELSE Extends(Pattern9, given, 3)

\* C2: on a conflict-free input solve_sudoku returns True exactly when the
\* input has a valid completion, and then the grid is full, every row,
\* column and box holds each digit once, and every given cell is unchanged.
C2_SolveIffCompletable ==
    (Done /\ mode = "solve" /\ check_partial(box, given)) =>
        /\ result = Completable
        /\ result => /\ Holes(box, grid) = {}
                     /\ IsSolved(box, grid)
                     /\ Extends(grid, given, box)

\* a conflict-free input without completion was searched and reported False
C2_Witness ==
    /\ Done /\ mode = "solve" /\ check_partial(box, given)
    /\ box = 2 /\ Completions2(given) = {} /\ result = FALSE

\* a conflict-free input with several holes was solved
C2_WitnessSolved ==
    /\ Done /\ mode = "solve" /\ check_partial(box, given)
    /\ Cardinality(Holes(box, given)) >= 2 /\ result = TRUE

\* C3: on an inconsistent board (a given value twice in a row, column or
\* box; boards without empty cell included) solve_sudoku returns False.
C3_InconsistentReportsFailure ==
    (Done /\ mode = "solve" /\ ~ check_partial(box, given)) => result = FALSE

\* C8: a solved grid with a single cell cleared is solved back to exactly
\* that grid: True is returned, the cleared cell holds its original value
\* and no other cell changed.
C8_SingleHoleRoundTrip ==
    (Done /\ mode = "solve") =>
        \A s \in (IF box = 2 THEN Solved2 ELSE {Pattern9}) :
            \A rc \in Coords(box) :
                given = [s EXCEPT ![rc[1]][rc[2]] = 0] =>
                    result = TRUE /\ grid = s

\* a single-hole grid was solved, on the 9x9 board
C8_Witness ==
    /\ Done /\ mode = "solve" /\ box = 3
    /\ Cardinality(Holes(box, given)) = 1
    /\ grid = Pattern9 /\ result = TRUE

\* a single-hole grid was solved, on the 4x4 board
C8_Witness2 ==
    /\ Done /\ mode = "solve" /\ box = 2
    /\ Cardinality(Holes(box, given)) = 1
    /\ grid \in Solved2 /\ result = TRUE

\* g comes no later than s in the order of the claim: equal on the cells
\* that were empty in the input, or smaller at the first of those cells, in
\* row-major order, where the two differ
LexLeq(b, g, s, empties) ==
    LET diff == {Pos(b, rc) : rc \in {e \in empties : g[e[1]][e[2]] # s[e[1]][e[2]]}}
    IN  diff = {} \/ At(b, g, SetMin(diff)) < At(b, s, SetMin(diff))

\* C9: when a conflict-free grid has several solutions, solve_sudoku leaves
\* the one whose values at the originally empty cells, read row-major, are
\* lexicographically smallest.
C9_FirstSolutionIsLexMin ==
    (Done /\ mode = "solve" /\ box = 2 /\ check_partial(box, given) /\ result = TRUE) =>
        \A s \in Completions2(given) : LexLeq(box, grid, s, Holes(box, given))

\* a grid with several completions was solved
C9_Witness ==
    /\ Done /\ mode = "solve" /\ box = 2 /\ check_partial(box, given)
    /\ result = TRUE /\ Cardinality(Completions2(given)) >= 2
    /\ given # EmptyGrid(2)

----------------------------------------------------------------------------
(* Properties of count mode.                                               *)

\* C4: for a conflict-free grid with N completions, count_solutions returns
\* exactly N when N < limit and a value >= limit when N >= limit; with
\* limit = 2 the result is 1 exactly when the grid has one solution.
C4_CountExactBelowLimit ==
    (Done /\ mode = "count" /\ box = 2 /\ check_partial(box, given)) =>
        LET N == Cardinality(Completions2(given))
        IN  /\ N < limit => result = N
            /\ N >= limit => result >= limit
            /\ limit = 2 => (result = 1 <=> N = 1)

\* a count that stayed below the limit and is not 0 or 1
C4_Witness ==
    /\ Done /\ mode = "count" /\ box = 2 /\ check_partial(box, given)
    /\ Cardinality(Completions2(given)) = 2 /\ limit = 3 /\ result = 2

C6_EmptyGridCountsTwo ==
    (mode = "count" /\ given = EmptyGrid(box) /\ limit = 2) =>
        /\ Done => result = 2
        /\ Len(stack) >= 1 => stack[1].num <= 1

\* the count on the empty 9x9 grid has returned
C6_Witness ==
    /\ mode = "count" /\ box = 3 /\ given = EmptyGrid(3) /\ limit = 2
    /\ Done /\ result = 2

----------------------------------------------------------------------------
(* Properties of fill mode.                                                *)

\* C7: from the empty grid, whatever the shuffles, fill_grid_backtracking
\* returns True with a grid without zero in which every row, column and box
\* is a permutation of the digits, so generate_full_grid never raises.
C7_FillAlwaysSucceeds ==
    mode = "fill" =>
        /\ pc # "RuntimeError"
        /\ pc = "returned" =>
              /\ retval = TRUE
              /\ Holes(box, grid) = {}
              /\ IsSolved(box, grid)
        /\ Done => Holes(box, result) = {} /\ IsSolved(box, result)

\* generate_full_grid returned a grid that is not the first in digit order:
\* the shuffle mattered
C7_Witness ==
    /\ mode = "fill" /\ Done /\ IsSolved(box, result)
    /\ result[0][0] = 4 /\ result[3][3] = 4

\* a call of fill mode below the top returned False: a dead end was left
C7_WitnessBacktrack ==
    mode = "fill" /\ pc = "ret" /\ retval = FALSE /\ stack # <<>>

----------------------------------------------------------------------------
(* Properties of generate().                                               *)

\* C1: the puzzle generate() returns has exactly one solution: counting on
\* a copy with limit 2 gives 1, and the puzzle has exactly one completion.
C1_PuzzleHasOneSolution ==
    (Done /\ mode = "generate") =>
        /\ count_solutions(box, result[1], 2).count = 1
        /\ Cardinality(Completions2(result[1])) = 1
        /\ Extends(given, result[1], box)

\* a puzzle was returned after removals were kept and a removal was refused
C1_Witness ==
    /\ Done /\ mode = "generate"
    /\ removed_count[1] >= 4
    /\ Len(cells) > removed_count[1]
    /\ Holes(box, result[1]) # {}

\* C10: on the same full grid and the same coordinate order, the run with
\* the larger mask_rate returns a puzzle with the same or fewer clues.
C10_LargerRateNoMoreClues ==
    (Done /\ mode = "generate" /\ Len(result) = 2) =>
        count_clues(box, result[2]) <= count_clues(box, result[1])

\* the two runs returned different puzzles, the first after keeping removals
C10_Witness ==
    /\ Done /\ mode = "generate" /\ Len(result) = 2
    /\ removed_count[1] >= 1
    /\ count_clues(box, result[2]) < count_clues(box, result[1])

----------------------------------------------------------------------------
(* Bounds on the removals of generate().                                   *)

\* the for loop of generate() was left by its break
BrokeOut == Len(cells) < Size(box) * Size(box)

NoCoordinateTwice ==
    \A j, k \in 1 .. Len(cells) : j # k => cells[j] # cells[k]

\* C11 as claimed: the returned puzzle has no empty cell when max_removals
\* <= 0, between 1 and max_removals empty cells when max_removals >= 1, and
\* exactly max_removals empty cells whenever the loop stopped before all
\* coordinates were attempted; no coordinate is attempted twice.
C11_RemovalBoundsAsClaimed ==
    (Done /\ mode = "generate" /\ Len(result) = 1) =>
        LET empty == Cardinality(Holes(box, result[1]))
            maxr == max_removals[1]
        IN  /\ maxr <= 0 => empty = 0
            /\ maxr >= 1 => (1 <= empty /\ empty <= maxr)
            /\ BrokeOut => empty = maxr
            /\ NoCoordinateTwice

\* C11 as amended: as claimed, except that the puzzle of a loop left by its
\* break has exactly max_removals empty cells only when max_removals >= 0
\* (with a negative max_removals the break is taken at once and no cell is
\* empty); all along, the empty cells of the working puzzle are the removals
\* counted, each at a coordinate already taken.
C11_RemovalBounds ==
    (mode = "generate" /\ Len(puzzle) = 1) =>
        LET maxr == max_removals[1]
        IN  /\ NoCoordinateTwice
            /\ Cardinality(Holes(box, puzzle[1])) = removed_count[1]
            /\ Holes(box, puzzle[1]) \subseteq Attempted
            /\ Done =>
                  LET empty == Cardinality(Holes(box, result[1]))
                  IN  /\ maxr <= 0 => empty = 0
                      /\ maxr >= 1 => (1 <= empty /\ empty <= maxr)
                      /\ (BrokeOut /\ maxr >= 0) => empty = maxr
                      /\ (BrokeOut /\ maxr < 0) => empty = 0

\* the loop was left by its break after a removal had been refused
C11_Witness ==
    /\ Done /\ mode = "generate" /\ Len(result) = 1
    /\ BrokeOut /\ max_removals[1] >= 1
    /\ Cardinality(Holes(box, result[1])) = max_removals[1]
    /\ Len(cells) > removed_count[1]

\* every coordinate was attempted and fewer than max_removals cells are empty
C11_WitnessExhausted ==
    /\ Done /\ mode = "generate" /\ Len(result) = 1
    /\ ~ BrokeOut
    /\ Cardinality(Holes(box, result[1])) \in 1 .. (max_removals[1] - 1)

----------------------------------------------------------------------------
(* estimate_difficulty_by_clues, called twice on the same grid as the main *)
(* loop may do.  retval keeps what the previous call returned.             *)

\* a wrong threshold: Easy only above 36 clues
estimate_difficulty_strict(b, g) ==
    LET clues == count_clues(b, g)
    IN  <<IF clues > 36 THEN "Easy" ELSE IF clues >= 30 THEN "Medium" ELSE "Hard",
          clues>>

\* lines 270-277
estimate_difficulty_by_clues(b, g) ==
    LET clues == count_clues(b, g)
        level == IF clues >= 36 THEN "Easy"
                 ELSE IF clues >= 30 THEN "Medium"
                 ELSE "Hard"
    IN  <<level, clues>>

\* one call: the grid is read, never written
estimate_call ==
    /\ mode = "estimate" /\ pc \in {"call", "again"}
    /\ result' = estimate_difficulty_by_clues(box, grid)
    /\ retval' = result
    /\ pc' = IF pc = "call" THEN "again" ELSE "done"
    /\ UNCHANGED <<box, mode, grid, stack, limit, given>>
    /\ UNCHANGED genVars

\* the solved 9x9 grid with only the k cells kept whose row-major position,
\* shifted by off, comes first; one grid for each clue count 0 .. 81
Kept9(k, off) ==
    [r \in Index(3) |-> [c \in Index(3) |->
        IF (Pos(3, <<r, c>>) + off) % (Size(3) * Size(3)) < k
        THEN Pattern9[r][c] ELSE 0]]

\* the shifts of the kept block
Offsets == {0, 40}

EstimateInputs ==
    {Kept9(k, off) : k \in 0 .. (Size(3) * Size(3)), off \in Offsets}

InitEstimate ==
    /\ box = 3
    /\ grid \in EstimateInputs
    /\ given = grid
    /\ mode = "estimate" /\ pc = "call" /\ stack = <<>>
    /\ retval = <<>> /\ result = <<>> /\ limit = 0
    /\ NoGen

NextEstimate == estimate_call

SpecEstimate == InitEstimate /\ [][NextEstimate]_vars

\* C12: estimate_difficulty_by_clues returns (label, clues) with clues the
\* number of non-zero cells and label Easy iff clues >= 36, Medium iff
\* 30 <= clues <= 35, Hard iff clues < 30; the grid is not modified, and a
\* second call on the same grid returns the same pair.
C12_LabelByClueCount ==
    (mode = "estimate" /\ pc \in {"again", "done"}) =>
        LET clues == Size(box) * Size(box) - Cardinality(Holes(box, given))
        IN  /\ result[2] = clues
            /\ result[1] \in {"Easy", "Medium", "Hard"}
            /\ result[1] = "Easy" <=> clues >= 36
            /\ result[1] = "Medium" <=> (30 <= clues /\ clues <= 35)
            /\ result[1] = "Hard" <=> clues < 30
            /\ grid = given
            /\ Done => result = retval

\* the second call returned Easy at the threshold of 36 clues
C12_Witness ==
    /\ mode = "estimate" /\ Done
    /\ result = <<"Easy", 36>> /\ retval = result

\* the labels on both sides of the lower threshold
C12_WitnessMedium ==
    /\ mode = "estimate" /\ Done /\ result = <<"Medium", 30>>

C12_WitnessHard ==
    /\ mode = "estimate" /\ Done /\ result = <<"Hard", 29>>

----------------------------------------------------------------------------
(* The two placement predicates, asked the same question.  The arguments   *)
(* row, col and the value are the fields of the one frame on the stack;    *)
(* result is the pair (generator's answer, solver's answer).               *)

valid_call ==
    /\ mode = "is_valid" /\ pc = "call"
    /\ result' = <<is_valid(box, grid, Top.row, Top.col, Top.num),
                   solver_is_valid(box, grid, Top.row, Top.col, Top.num)>>
    /\ pc' = "done"
    /\ UNCHANGED <<box, mode, grid, stack, retval, limit, given>>
    /\ UNCHANGED genVars

\* 4x4 grids asked about: sparse grids, solved grids with cells cleared, and
\* cleared grids with one digit overwritten
ValidInputs2(g) ==
    \/ g \in Sparse2 \/ g \in Dug(Few2, MaxHoles + 1) \/ g \in Tampered2

\* every cell and every value, 0 included
InitValid ==
    /\ \E b \in {2, 3} :
          /\ box = b
          /\ IF b = 2 THEN ValidInputs2(grid) ELSE grid \in EstimateInputs
          /\ \E rc \in Coords(b), v \in 0 .. Size(b) :
                stack = <<[Frame(rc[1], rc[2]) EXCEPT !.num = v]>>
    /\ given = grid
    /\ mode = "is_valid" /\ pc = "call"
    /\ retval = FALSE /\ result = <<>> /\ limit = 0
    /\ NoGen

NextValid == valid_call

SpecValid == InitValid /\ [][NextValid]_vars

\* the value occurs in the row, in the column or in the box of the cell
Occurs(b, g, row, col, v) ==
    \/ v \in {g[row][c] : c \in Index(b)}
    \/ v \in {g[r][col] : r \in Index(b)}
    \/ v \in {g[rc[1]][rc[2]] : rc \in BoxCells(b, row \div b, col \div b)}

\* C13: is_valid returns False exactly when the value already occurs in the
\* row, in the column or in the box of the cell, and True otherwise, without
\* modifying the grid; the generator's and the solver's is_valid agree.
C13_ValidIffAbsent ==
    (mode = "is_valid" /\ Done) =>
        /\ result[1] = ~ Occurs(box, given, Top.row, Top.col, Top.num)
        /\ result[2] = result[1]
        /\ grid = given

\* a value refused on the 9x9 board for the box alone
C13_Witness ==
    /\ mode = "is_valid" /\ Done /\ box = 3 /\ result = <<FALSE, FALSE>>
    /\ Top.num # 0
    /\ Top.num \notin {given[Top.row][c] : c \in Index(3)}
    /\ Top.num \notin {given[r][Top.col] : r \in Index(3)}

\* a value accepted on a grid that is not empty
C13_WitnessTrue ==
    /\ mode = "is_valid" /\ Done /\ result = <<TRUE, TRUE>>
    /\ Top.num # 0 /\ given # EmptyGrid(box)

----------------------------------------------------------------------------
(* The two row-major scans, run on the same grid; result is the pair       *)
(* (find_empty's answer, find_empty_cell's answer).                        *)

find_call ==
    /\ mode = "find_empty" /\ pc = "call"
    /\ result' = <<find_empty(box, grid), find_empty_cell(box, grid)>>
    /\ pc' = "done"
    /\ UNCHANGED <<box, mode, grid, stack, retval, limit, given>>
    /\ UNCHANGED genVars

\* the grid of test_find_empty
TestFindGrid == [EmptyGrid(3) EXCEPT ![0][0] = 1]

FindInputs9 == EstimateInputs \cup Inputs9 \cup {TestFindGrid}

InitFind ==
    /\ \E b \in {2, 3} :
          /\ box = b
          /\ IF b = 2 THEN ValidInputs2(grid) \/ grid \in Dug2
                       ELSE grid \in FindInputs9
    /\ given = grid
    /\ mode = "find_empty" /\ pc = "call" /\ stack = <<>>
    /\ retval = FALSE /\ result = <<>> /\ limit = 0
    /\ NoGen

NextFind == find_call

SpecFind == InitFind /\ [][NextFind]_vars

\* C14: find_empty and find_empty_cell return the first cell in row-major
\* order whose value is 0 (every cell before it is non-zero), and None if
\* and only if the grid has no zero cell.
C14_FirstEmptyRowMajor ==
    (mode = "find_empty" /\ Done) =>
        /\ result[2] = result[1]
        /\ result[1] = None <=> Holes(box, given) = {}
        /\ result[1] # None =>
              /\ result[1] \in Coords(box)
              /\ given[result[1][1]][result[1][2]] = 0
              /\ \A rc \in Coords(box) :
                    Pos(box, rc) < Pos(box, result[1]) => given[rc[1]][rc[2]] # 0
        /\ grid = given

\* the first empty cell is neither in row 0 nor in column 0, and a cell of
\* an earlier column is empty in a later row
C14_Witness ==
    /\ mode = "find_empty" /\ Done /\ box = 3
    /\ result[1] # None /\ result[1][1] > 0 /\ result[1][2] > 0
    /\ \E rc \in Holes(3, given) : rc[2] < result[1][2]

\* a full grid was scanned
C14_WitnessNone ==
    /\ mode = "find_empty" /\ Done /\ result = <<None, None>>

\* the grid of test_find_empty was scanned
C14_WitnessTest ==
    /\ mode = "find_empty" /\ Done /\ given = TestFindGrid
    /\ result[2] = <<0, 1>>

----------------------------------------------------------------------------
(* solve_sudoku and fill_grid_backtracking on grids of every kind, to look *)
(* at the grid each call leaves behind.                                    *)

\* grids fill_grid_backtracking is run on: the empty grid, as in
\* generate_full_grid, and conflict-free grids without completion
FillInputs2 == {EmptyGrid(2)} \cup Tampered2

InitBacktrack ==
    /\ \E b \in {2, 3} :
          /\ box = b
          /\ \/ /\ mode = "solve"
                /\ IF b = 2 THEN Inputs2(grid) ELSE grid \in Inputs9
             \/ mode = "fill" /\ b = 2 /\ grid \in FillInputs2
    /\ given = grid
    /\ pc = "call" /\ stack = <<>>
    /\ retval = FALSE /\ result = FALSE /\ limit = 0
    /\ NoGen

NextBacktrack ==
    \/ solve_call \/ solve_loop \/ solve_ret
    \/ fill_call \/ fill_loop \/ fill_ret

SpecBacktrack == InitBacktrack /\ [][NextBacktrack]_vars

\* grid g with the digit of every frame of st written into the frame's cell:
\* the grid the call made by the top frame of st was called with
Placed(b, g, st) ==
    [r \in Index(b) |-> [c \in Index(b) |->
        IF \E k \in 1 .. Len(st) : st[k].row = r /\ st[k].col = c
        THEN st[CHOOSE k \in 1 .. Len(st) : st[k].row = r /\ st[k].col = c].num
        ELSE g[r][c]]]

\* C15: whenever solve_sudoku or fill_grid_backtracking returns False, at
\* the top level or at any depth, the grid is cell for cell the grid the
\* call was called with (which, at the entry of a call, is the input with
\* the placements of the calls above it).
C15_FailureRestoresGrid ==
    mode \in {"solve", "fill"} =>
        /\ pc = "call" => grid = Placed(box, given, stack)
        /\ (pc \in {"ret", "returned", "done"} /\ retval = FALSE) =>
              grid = Placed(box, given, stack)
        /\ (pc \in {"returned", "done"} /\ retval = FALSE) => grid = given

\* solve_sudoku returned False two levels down, after its own loop had
\* placed and cleared a digit
C15_Witness ==
    /\ mode = "solve" /\ pc = "ret" /\ retval = FALSE
    /\ Len(stack) >= 2 /\ grid # given

\* fill_grid_backtracking returned False below the top
C15_WitnessFill ==
    /\ mode = "fill" /\ pc = "ret" /\ retval = FALSE
    /\ Len(stack) >= 2 /\ grid # given

\* the outermost call returned False on a grid with several empty cells
C15_WitnessTop ==
    /\ mode \in {"solve", "fill"} /\ pc \in {"returned", "done"}
    /\ retval = FALSE /\ Cardinality(Holes(box, given)) >= 2

----------------------------------------------------------------------------
(* The three searches side by side.                                        *)

InitSearch == InitBacktrack \/ InitCount

NextSearch == NextBacktrack \/ NextCount

SpecSearch == InitSearch /\ [][NextSearch]_vars

\* from a conflict-free input the grid is conflict-free in every state
GridStaysLegal ==
    check_partial(box, given) => check_partial(box, grid)

\* a step that writes a digit writes it into a cell that holds 0, and
\* is_valid holds for that cell and digit on the grid before the write
WriteIsChecked ==
    \A rc \in Coords(box) :
        (grid'[rc[1]][rc[2]] # grid[rc[1]][rc[2]] /\ grid'[rc[1]][rc[2]] # 0) =>
            /\ grid[rc[1]][rc[2]] = 0
            /\ ~ Occurs(box, grid, rc[1], rc[2], grid'[rc[1]][rc[2]])
            /\ IF mode = "solve"
               THEN solver_is_valid(box, grid, rc[1], rc[2], grid'[rc[1]][rc[2]])
               ELSE is_valid(box, grid, rc[1], rc[2], grid'[rc[1]][rc[2]])

\* C16: starting from a conflict-free grid, in every state of solve, fill
\* and count_solutions no two non-zero cells of a row, column or box hold
\* the same value; a digit is written only into a cell that is 0 and only
\* when is_valid holds for that cell and digit.
C16_SearchKeepsGridLegal ==
    [] GridStaysLegal /\ [][WriteIsChecked]_vars

\* count_solutions is three placements deep on a conflict-free grid
C16_Witness ==
    /\ mode = "count" /\ pc = "call" /\ Len(stack) >= 3
    /\ check_partial(box, given) /\ check_partial(box, grid)
    /\ \A k \in 1 .. 3 : grid[stack[k].row][stack[k].col] = stack[k].num

\* the same for solve_sudoku and for fill_grid_backtracking
C16_WitnessSolve ==
    /\ mode = "solve" /\ pc = "call" /\ Len(stack) >= 3
    /\ check_partial(box, given) /\ check_partial(box, grid)

C16_WitnessFill ==
    /\ mode = "fill" /\ pc = "call" /\ Len(stack) >= 3
    /\ check_partial(box, given) /\ check_partial(box, grid)

----------------------------------------------------------------------------
(* The grid count_solutions leaves behind.                                 *)

C17_WitnessTop ==
    /\ mode = "count" /\ Done /\ box = 2 /\ grid = given
    /\ result >= limit /\ result < Cardinality(Completions2(given))

----------------------------------------------------------------------------
(* Local minimality of the puzzle generate() returns.                      *)

\* generate() ran through the whole list without taking its break
Exhausted ==
    /\ Done /\ mode = "generate" /\ Len(result) = 1
    /\ Len(cells) = Size(box) * Size(box)
    /\ removed_count[1] < max_removals[1]

\* C18: whenever generate() finishes by attempting every coordinate without
\* reaching max_removals, every non-zero cell of the returned puzzle holds
\* the full solution's value, and clearing any single remaining clue gives
\* a grid with at least two solutions.
C18_ExhaustedPuzzleIsMinimal ==
    Exhausted =>
        /\ Extends(given, result[1], box)
        /\ \A rc \in Coords(box) \ Holes(box, result[1]) :
              LET cleared == [result[1] EXCEPT ![rc[1]][rc[2]] = 0]
              IN  /\ Cardinality(Completions2(cleared)) >= 2
                  /\ count_solutions(box, cleared, 2).count >= 2

\* a puzzle came out of an exhausted list with cells removed and clues left
C18_Witness ==
    /\ Exhausted
    /\ removed_count[1] >= 4
    /\ count_clues(box, result[1]) >= 4
    /\ Cardinality(Completions2(result[1])) = 1

=============================================================================
